---- MODULE Spec2Model ----
(***************************************************************************)
(* Request-execution pipeline of the OpenLiga reverse proxy:               *)
(* ProxyRequest parsing, operation and payload validation, the decision    *)
(* mapper, the rate-limited retrying fetch of OpenLigaDBAdapter, response  *)
(* normalization and the response envelopes.                               *)
(*                                                                         *)
(* Each inbound request is an asyncio task.  A task only yields at an      *)
(* await that really suspends (the structlog a-methods, client.get,        *)
(* asyncio.sleep); the code between two such awaits is one action.         *)
(***************************************************************************)
EXTENDS Integers, Sequences, FiniteSets, TLC

(***************************************************************************)
(* Python values.  Every value is tagged with its type, so that values of  *)
(* different types can be compared.                                        *)
(***************************************************************************)
NoneV == [t |-> "None"]
IntV(n) == [t |-> "int", v |-> n]
FloatV(x) == [t |-> "float", v |-> x]
StrV(s) == [t |-> "str", v |-> s]
DictV(f) == [t |-> "dict", v |-> f]
ListV(s) == [t |-> "list", v |-> s]

\* an f-string: its literal text and the value formatted into it
FStr(text, arg) == [t |-> "str", v |-> text, arg |-> arg]

EmptyDict == DictV(<<>>)
EmptyList == ListV(<<>>)

\* Python truthiness: None, 0, "", {} and [] are falsy.
Truthy(x) ==
    CASE x.t = "None" -> FALSE
      [] x.t = "int" -> x.v # 0
      [] x.t = "str" -> x.v # ""
      [] x.t = "dict" -> DOMAIN x.v # {}
      [] x.t = "list" -> Len(x.v) # 0
      [] OTHER -> TRUE

\* A raised exception, as the value of the expression that raised it
Exc(name) == [t |-> "exception", v |-> name]
IsExc(x) == "t" \in DOMAIN x /\ x.t = "exception"

\* a or b: b is evaluated only when a is falsy
PyOr(a, b) == IF IsExc(a) THEN a ELSE IF Truthy(a) THEN a ELSE b

\* x.get(k, default): only a dict has .get
Get(x, k, default) ==
    IF x.t = "dict"
    THEN IF k \in DOMAIN x.v THEN x.v[k] ELSE default
    ELSE Exc("AttributeError")

\* the first exception among the values of a sequence, None when there is none
RECURSIVE FirstExc(_)
FirstExc(vals) ==
    IF vals = <<>> THEN NoneV
    ELSE IF IsExc(Head(vals)) THEN Head(vals)
    ELSE FirstExc(Tail(vals))

(***************************************************************************)
(* Settings (app/config.py).  The values come from the environment; the    *)
(* ones below are one deployment.                                          *)
(***************************************************************************)
RATE_LIMIT == 2
RATE_WINDOW == 2
BACKOFF_BASE_DELAY == 1
BACKOFF_MAX_DELAY == 2
BACKOFF_MAX_RETRIES == 2
BACKOFF_JITTER == TRUE
OPENLIGADB_TIMEOUT == 1

\* Bounds of the model
MaxTime == 3
Tasks == {"t1", "t2"}

(***************************************************************************)
(* decision_mapper.py                                                      *)
(***************************************************************************)
OperationType == {"ListLeagues", "GetLeagueMatches", "GetTeam", "GetMatch"}

OPERATION_SCHEMAS ==
    [op \in OperationType |->
        CASE op = "ListLeagues" -> [required |-> <<>>, optional |-> <<>>]
          [] op = "GetLeagueMatches" ->
                [required |-> <<"leagueId", "season">>, optional |-> <<>>]
          [] op = "GetTeam" -> [required |-> <<"teamId">>, optional |-> <<>>]
          [] op = "GetMatch" ->
                [required |-> <<"teamId1", "teamId2">>, optional |-> <<>>]]

\* register_all whose mapping for GetLeagueMatches leaves out the season
register_all_without_season ==
    [op \in OperationType |->
        CASE op = "ListLeagues" ->
                [adapter_method |-> "list_leagues", payload_mapping |-> <<>>]
          [] op = "GetLeagueMatches" ->
                [adapter_method |-> "get_league_matches",
                 payload_mapping |-> <<<<"leagueId", "league_id">>>>]
          [] op = "GetTeam" ->
                [adapter_method |-> "get_team",
                 payload_mapping |-> <<<<"teamId", "team_id">>>>]
          [] op = "GetMatch" ->
                [adapter_method |-> "get_matches_between_teams",
                 payload_mapping |-> <<<<"teamId1", "team_id1">>,
                                       <<"teamId2", "team_id2">>>>]]

\* DecisionMapper.register_all: the table operation -> OperationDecision
register_all ==
    [op \in OperationType |->
        CASE op = "ListLeagues" ->
                [adapter_method |-> "list_leagues", payload_mapping |-> <<>>]
          [] op = "GetLeagueMatches" ->
                [adapter_method |-> "get_league_matches",
                 payload_mapping |-> <<<<"leagueId", "league_id">>,
                                       <<"season", "season">>>>]
          [] op = "GetTeam" ->
                [adapter_method |-> "get_team",
                 payload_mapping |-> <<<<"teamId", "team_id">>>>]
          [] op = "GetMatch" ->
                [adapter_method |-> "get_matches_between_teams",
                 payload_mapping |-> <<<<"teamId1", "team_id1">>,
                                       <<"teamId2", "team_id2">>>>]]

\* validate_operation_type: <<is_valid, message>>
validate_operation_type(operation) ==
    IF operation \in OperationType
    THEN <<TRUE, NoneV>>
    ELSE <<FALSE, StrV("Unknown operation. Supported: ListLeagues, GetLeagueMatches, GetTeam, GetMatch")>>

\* the required fields of a schema that the payload lacks, in schema order
Missing(required, payload) ==
    SelectSeq(required, LAMBDA f : f \notin DOMAIN payload)

\* validate_payload that lets every payload of a known operation through
validate_payload_accepts_all(operation, payload) ==
    IF operation \notin OperationType
    THEN <<FALSE, StrV("Invalid operation type"), NoneV>>
    ELSE <<TRUE, NoneV, NoneV>>

\* validate_payload: <<is_valid, message, details>>
validate_payload(operation, payload) ==
    IF operation \notin OperationType
    THEN <<FALSE, StrV("Invalid operation type"), NoneV>>
    ELSE LET missing == Missing(OPERATION_SCHEMAS[operation].required, payload)
         IN IF Len(missing) > 0
            THEN <<FALSE, FStr("Missing required fields: ", missing),
                   DictV([missing_fields |-> ListV([i \in 1..Len(missing) |-> StrV(missing[i])])])>>
            ELSE <<TRUE, NoneV, NoneV>>

\* DecisionMapper.get_decision on the table `decisions`
get_decision(decisions, operation) ==
    IF operation \in OperationType /\ operation \in DOMAIN decisions
    THEN decisions[operation]
    ELSE NoneV

\* OperationDecision.execute builds kwargs: the mapped parameters whose
\* payload key is present, in mapping order, as <<param_name, value>> pairs
Kwargs(payload_mapping, payload) ==
    LET present == SelectSeq(payload_mapping, LAMBDA m : m[1] \in DOMAIN payload)
    IN [i \in 1..Len(present) |-> <<present[i][2], payload[present[i][1]]>>]

(***************************************************************************)
(* normalizers.py                                                          *)
(***************************************************************************)
\* a dict literal: the exception one of its values raised, else the dict
MakeDict(f, order) ==
    LET e == FirstExc([i \in 1..Len(order) |-> f[order[i]]])
    IN IF IsExc(e) THEN e ELSE DictV(f)

\* a list built by a loop: the exception an item raised, else the list
MakeList(items) ==
    LET e == FirstExc(items)
    IN IF IsExc(e) THEN e ELSE ListV(items)

\* match_results[-1]
LastOf(x) ==
    IF x.t = "list" THEN x.v[Len(x.v)]
    ELSE IF x.t = "dict" THEN Exc("KeyError")
    ELSE Exc("TypeError")

\* result, goals1, goals2 of a match record, by the "final result" rule
MatchResult(match) ==
    LET match_results == Get(match, "MatchResults", EmptyList)
    IN IF IsExc(match_results)
       THEN [result |-> match_results, goals1 |-> match_results, goals2 |-> match_results]
       ELSE IF ~Truthy(match_results)
       THEN [result |-> NoneV, goals1 |-> NoneV, goals2 |-> NoneV]
       ELSE LET final == LastOf(match_results)
                goals1 == IF IsExc(final) THEN final ELSE Get(final, "PointsTeam1", NoneV)
                goals2 == IF IsExc(final) THEN final ELSE Get(final, "PointsTeam2", NoneV)
            IN [result |-> MakeDict([team1Goals |-> goals1, team2Goals |-> goals2],
                                    <<"team1Goals", "team2Goals">>),
                goals1 |-> goals1, goals2 |-> goals2]

\* the status of a match record
MatchStatusOf(match, result) ==
    PyOr(Get(match, "MatchStatus", NoneV),
         IF IsExc(result) THEN result
         ELSE IF Truthy(result) THEN StrV("completed") ELSE StrV("scheduled"))

LeagueItem(league) ==
    MakeDict([id |-> PyOr(Get(league, "LeagueId", NoneV), Get(league, "id", NoneV)),
              name |-> PyOr(Get(league, "LeagueName", NoneV), Get(league, "name", NoneV)),
              country |-> PyOr(Get(league, "LeagueShortcut", NoneV), Get(league, "country", StrV(""))),
              season |-> PyOr(Get(league, "CurrentSeason", NoneV), Get(league, "season", NoneV))],
             <<"id", "name", "country", "season">>)

normalize_leagues(data) ==
    IF data.t # "list" THEN EmptyList
    ELSE MakeList([i \in 1..Len(data.v) |-> LeagueItem(data.v[i])])

MatchItem(match) ==
    LET team1 == PyOr(Get(match, "Team1", NoneV), EmptyDict)
        team2 == PyOr(Get(match, "Team2", NoneV), EmptyDict)
        r == MatchResult(match)
    IN MakeDict([id |-> PyOr(Get(match, "MatchID", NoneV), Get(match, "id", NoneV)),
                 team1 |-> IF IsExc(team1) THEN team1
                           ELSE PyOr(Get(team1, "TeamName", NoneV), Get(team1, "name", StrV(""))),
                 team2 |-> IF IsExc(team2) THEN team2
                           ELSE PyOr(Get(team2, "TeamName", NoneV), Get(team2, "name", StrV(""))),
                 date |-> PyOr(Get(match, "MatchDateTime", NoneV), Get(match, "date", StrV(""))),
                 status |-> MatchStatusOf(match, r.result),
                 goals1 |-> r.goals1,
                 goals2 |-> r.goals2,
                 result |-> r.result],
                <<"team1", "team2", "result", "goals1", "goals2", "id", "date", "status">>)

normalize_matches(data) ==
    IF data.t # "list" THEN EmptyList
    ELSE MakeList([i \in 1..Len(data.v) |-> MatchItem(data.v[i])])

normalize_team(data) ==
    IF data.t # "dict" THEN EmptyDict
    ELSE DictV([id |-> PyOr(Get(data, "TeamId", NoneV), Get(data, "id", NoneV)),
                name |-> PyOr(Get(data, "TeamName", NoneV), Get(data, "name", StrV(""))),
                shortName |-> PyOr(Get(data, "ShortName", NoneV), Get(data, "shortName", NoneV)),
                foundedYear |-> PyOr(Get(data, "FoundingYear", NoneV), Get(data, "foundedYear", NoneV)),
                logo |-> PyOr(Get(data, "TeamIconUrl", NoneV), Get(data, "logo", NoneV))])

normalize_match(data) ==
    IF data.t # "dict" THEN EmptyDict
    ELSE LET r == MatchResult(data)
             team1 == PyOr(Get(data, "Team1", NoneV), EmptyDict)
             team2 == PyOr(Get(data, "Team2", NoneV), EmptyDict)
         IN MakeDict([id |-> PyOr(Get(data, "MatchID", NoneV), Get(data, "id", NoneV)),
                      team1 |-> PyOr(Get(team1, "TeamName", NoneV), Get(team1, "name", StrV(""))),
                      team1Id |-> PyOr(Get(team1, "TeamId", NoneV), Get(team1, "id", NoneV)),
                      team2 |-> PyOr(Get(team2, "TeamName", NoneV), Get(team2, "name", StrV(""))),
                      team2Id |-> PyOr(Get(team2, "TeamId", NoneV), Get(team2, "id", NoneV)),
                      date |-> PyOr(Get(data, "MatchDateTime", NoneV), Get(data, "date", StrV(""))),
                      status |-> MatchStatusOf(data, r.result),
                      goals1 |-> r.goals1,
                      goals2 |-> r.goals2,
                      result |-> r.result,
                      location |-> Get(data, "Location", NoneV)],
                     <<"result", "goals1", "goals2", "id", "team1", "team1Id", "team2",
                       "team2Id", "date", "status", "location">>)

normalize_response(operation_type, data) ==
    CASE operation_type = "ListLeagues" -> normalize_leagues(data)
      [] operation_type = "GetLeagueMatches" -> normalize_matches(data)
      [] operation_type = "GetTeam" -> normalize_team(data)
      [] operation_type = "GetMatch" -> normalize_match(data)
      [] OTHER -> data

(***************************************************************************)
(* utils/backoff.py                                                        *)
(***************************************************************************)
Min(a, b) == IF a <= b THEN a ELSE b
Max(a, b) == IF a >= b THEN a ELSE b

\* 2 ** retry_count is an exact int.  Multiplying it by a float converts it
\* to a float first, and an int of FLOAT_MAX_EXP bits or more has no float:
\* "OverflowError: int too large to convert to float".
FLOAT_MAX_EXP == 1024

\* b * 2 ** n for b >= 0, doubled step by step and no further than the first
\* value above cap: min(., cap) cannot tell that value from the full product
RECURSIVE Doubled(_, _, _)
Doubled(b, n, cap) ==
    IF n = 0 \/ b = 0 \/ b > cap THEN b ELSE Doubled(2 * b, n - 1, cap)

\* line 21: base_delay * (2 ** retry_count), or the exception it raises
Product(retry_count, base_delay, cap) ==
    IF base_delay.t = "float" /\ retry_count >= FLOAT_MAX_EXP
    THEN Exc("OverflowError")
    ELSE [t |-> base_delay.t, v |-> Doubled(base_delay.v, retry_count, cap)]

\* exponential_backoff that clamps at twice max_delay
exponential_backoff_loose_clamp(retry_count, base_delay, max_delay, jitter) ==
    LET product == Product(retry_count, base_delay, 2 * max_delay.v)
        delay == IF 2 * max_delay.v < product.v THEN FloatV(2 * max_delay.v) ELSE product
    IN IF IsExc(product) THEN {product}
       ELSE IF jitter THEN {FloatV(d) : d \in 0..delay.v} ELSE {delay}

\* what exponential_backoff may return, or the exception it raises:
\* random.uniform(0, delay) draws from [0, delay]; time is counted in whole
\* clock ticks
exponential_backoff(retry_count, base_delay, max_delay, jitter) ==
    LET product == Product(retry_count, base_delay, max_delay.v)
        delay == IF max_delay.v < product.v THEN max_delay ELSE product
    IN IF IsExc(product) THEN {product}
       ELSE IF jitter THEN {FloatV(d) : d \in 0..delay.v} ELSE {delay}

(***************************************************************************)
(* utils/rate_limiter.py: RateLimiter on the deque `reqs` at clock value   *)
(* current_time                                                            *)
(***************************************************************************)
\* Prune that also drops the timestamps that are exactly window old
RECURSIVE PruneInclusive(_, _, _)
PruneInclusive(reqs, current_time, window) ==
    IF reqs # <<>> /\ Head(reqs) <= current_time - window
    THEN PruneInclusive(Tail(reqs), current_time, window)
    ELSE reqs

\* while self.requests and self.requests[0] < current_time - self.window: popleft
RECURSIVE Prune(_, _, _)
Prune(reqs, current_time, window) ==
    IF reqs # <<>> /\ Head(reqs) < current_time - window
    THEN Prune(Tail(reqs), current_time, window)
    ELSE reqs

\* is_allowed that records the clock value of a denied call as well
is_allowed_records_denied(reqs, current_time, limit, window) ==
    LET pruned == Prune(reqs, current_time, window)
    IN [allowed |-> Len(pruned) < limit, requests |-> Append(pruned, current_time)]

\* is_allowed that never discards an old timestamp
is_allowed_no_recovery(reqs, current_time, limit, window) ==
    IF Len(reqs) < limit
    THEN [allowed |-> TRUE, requests |-> Append(reqs, current_time)]
    ELSE [allowed |-> FALSE, requests |-> reqs]

\* is_allowed with the test of the limit off by one
is_allowed_off_by_one(reqs, current_time, limit, window) ==
    LET pruned == Prune(reqs, current_time, window)
    IN IF Len(pruned) <= limit
       THEN [allowed |-> TRUE, requests |-> Append(pruned, current_time)]
       ELSE [allowed |-> FALSE, requests |-> pruned]

\* is_allowed: the answer and the deque it leaves
is_allowed(reqs, current_time, limit, window) ==
    LET pruned == Prune(reqs, current_time, window)
    IN IF Len(pruned) < limit
       THEN [allowed |-> TRUE, requests |-> Append(pruned, current_time)]
       ELSE [allowed |-> FALSE, requests |-> pruned]

\* get_remaining: the answer and the deque it leaves
get_remaining(reqs, current_time, limit, window) ==
    LET pruned == Prune(reqs, current_time, window)
    IN [remaining |-> Max(0, limit - Len(pruned)), requests |-> pruned]

get_reset_time(reqs, current_time, window) ==
    IF reqs = <<>> THEN 0
    ELSE Max(0, Head(reqs) + window - current_time)

\* the detail of the HTTPException check_rate_limit raises on a denial
RateLimitDetail(reset_time) ==
    [code |-> "RATE_LIMIT_EXCEEDED",
     message |-> FStr("Rate limit exceeded. Reset in ", reset_time)]

(***************************************************************************)
(* adapters/openligadb.py                                                  *)
(***************************************************************************)
AdapterResponse(data, status_code, latency_ms, upstream_url) ==
    [data |-> data, status_code |-> status_code,
     latency_ms |-> latency_ms, upstream_url |-> upstream_url]

\* the positional parameters each adapter method cannot be called without
RequiredParams(adapter_method) ==
    CASE adapter_method = "list_leagues" -> {}
      [] adapter_method = "get_league_matches" -> {"league_id"}
      [] adapter_method = "get_team" -> {"team_id"}
      [] adapter_method = "get_matches_between_teams" -> {"team_id1", "team_id2"}

EndPoint(adapter_method) ==
    CASE adapter_method = "list_leagues" -> "/api/getavailableleagues"
      [] adapter_method = "get_league_matches" -> "/api/getmatchdata"
      [] adapter_method = "get_team" -> "/api/getteam"
      [] adapter_method = "get_matches_between_teams" -> "/api/getmatchdata"

\* adapter_method(**kwargs) up to its call of _fetch: the url, or the
\* TypeError of a call that lacks a parameter
AdapterUrl(adapter_method, kwargs) ==
    IF RequiredParams(adapter_method) \subseteq {kwargs[i][1] : i \in 1..Len(kwargs)}
    THEN [path |-> EndPoint(adapter_method),
          args |-> [i \in 1..Len(kwargs) |-> kwargs[i][2]]]
    ELSE Exc("TypeError")

\* the retried statuses with 404 among them
RetryStatusesAnd404 == {404, 429, 500, 502, 503, 504}

RetryStatuses == {429, 500, 502, 503, 504}

\* What client.get may come back with: a response, asyncio.TimeoutError, or
\* another exception of the transport (a refused connection).
IsResponse(o) == o.kind = "response"
IsTimeout(o) == o.kind = "TimeoutError"

\* line 54 with the bound on the retries off by one
ShouldRetryOffByOne(status_code, retry_count) ==
    status_code \in RetryStatuses /\ retry_count <= BACKOFF_MAX_RETRIES

\* line 54: a transient status is retried while retries are left
ShouldRetry(status_code, retry_count) ==
    status_code \in RetryStatuses /\ retry_count < BACKOFF_MAX_RETRIES

\* line 80 with the bound on the retries off by one
TimeoutRetryOffByOne(retry_count) == retry_count <= BACKOFF_MAX_RETRIES

\* line 80: a timeout is retried while retries are left
TimeoutRetry(retry_count) == retry_count < BACKOFF_MAX_RETRIES

\* lines 72-77: the result for a status that is not retried
ErrorResult(status_code, latency_ms, url) ==
    AdapterResponse(DictV([error |-> FStr("API error: ", status_code)]),
                    status_code, latency_ms, url)

\* lines 96-101: the synthetic result of a timeout that is not retried
TimeoutResult(url) ==
    AdapterResponse(DictV([error |-> StrV("Request timeout")]),
                    504, OPENLIGADB_TIMEOUT * 1000, url)

\* _fetch without its branch for status 200
fetch_outcome_no_200(o, retry_count, latency_ms, url) ==
    IF IsResponse(o)
    THEN IF ShouldRetry(o.status_code, retry_count)
         THEN [do |-> "retry", value |-> NoneV]
         ELSE [do |-> "return", value |-> ErrorResult(o.status_code, latency_ms, url)]
    ELSE IF IsTimeout(o)
    THEN IF TimeoutRetry(retry_count)
         THEN [do |-> "retry", value |-> NoneV]
         ELSE [do |-> "return", value |-> TimeoutResult(url)]
    ELSE [do |-> "raise", value |-> Exc(o.kind)]

\* _fetch from the return of client.get on (lines 43-101): what it does with
\* the outcome o of attempt number retry_count
fetch_outcome(o, retry_count, latency_ms, url) ==
    IF IsResponse(o)
    THEN IF o.status_code = 200
         THEN [do |-> "return",
               value |-> AdapterResponse(o.body, o.status_code, latency_ms, url)]
         ELSE IF ShouldRetry(o.status_code, retry_count)
         THEN [do |-> "retry", value |-> NoneV]
         ELSE [do |-> "return", value |-> ErrorResult(o.status_code, latency_ms, url)]
    ELSE IF IsTimeout(o)
    THEN IF TimeoutRetry(retry_count)
         THEN [do |-> "retry", value |-> NoneV]
         ELSE [do |-> "return", value |-> TimeoutResult(url)]
    ELSE [do |-> "raise", value |-> Exc(o.kind)]

(***************************************************************************)
(* adapters/manager.py, routes/proxy.py, OpenLigaDBAdapter._get_client:    *)
(* get or create.  An instance carries the number of instances of its      *)
(* class built so far, itself included.                                    *)
(***************************************************************************)
InstanceNo(old) == IF old = NoneV THEN 1 ELSE old.no + 1

\* manager.get_adapter on the cache _adapters: the cache it leaves
get_adapter(cache, name) ==
    IF name \notin DOMAIN cache
    THEN [n \in DOMAIN cache \cup {name} |->
            IF n = name THEN [t |-> "OpenLigaDBAdapter", no |-> 1] ELSE cache[n]]
    ELSE cache

\* get_mapper that builds a mapper for every request
get_mapper_always_new(m, cache) ==
    LET c == get_adapter(cache, "openliga")
    IN [adapters |-> c,
        mapper |-> [t |-> "DecisionMapper", no |-> InstanceNo(m),
                    adapter |-> c["openliga"].no, v |-> register_all]]

\* proxy.get_mapper on _mapper and the cache: what it leaves of both
get_mapper(m, cache) ==
    IF m = NoneV
    THEN LET c == get_adapter(cache, "openliga")
         IN [adapters |-> c,
             mapper |-> [t |-> "DecisionMapper", no |-> InstanceNo(m),
                         adapter |-> c["openliga"].no, v |-> register_all]]
    ELSE [adapters |-> cache, mapper |-> m]

\* OpenLigaDBAdapter._get_client on self.client
get_client(c) ==
    IF c = NoneV THEN [t |-> "AsyncClient", no |-> InstanceNo(c)] ELSE c

(***************************************************************************)
(* routes/proxy.py and main.py: the responses                              *)
(***************************************************************************)
\* _error_response: the HTTPException
error_response(request_id, status_code, error_code, message, details) ==
    [status_code |-> IF status_code \in {400, 502, 500} THEN status_code ELSE 500,
     detail |-> [requestId |-> request_id,
                 success |-> FALSE,
                 error |-> [code |-> error_code, message |-> message,
                            details |-> details]]]

\* http_exception_handler: every detail raised by this code is a dict and
\* becomes the body as it is
http_exception_handler(exc) ==
    [status_code |-> exc.status_code, content |-> exc.detail]

\* the HTTPException of the `except Exception` clause of execute_proxy
InternalError(request_id) ==
    error_response(request_id, 500, "INTERNAL_ERROR", StrV("Internal server error"), NoneV)

\* SuccessResponse(...): requestId is a required str; anything else fails
\* pydantic's validation.  The timestamp of the metadata is left out.
SuccessResponse(request_id, data, upstream_latency) ==
    IF request_id.t # "str"
    THEN Exc("ValidationError")
    ELSE [requestId |-> request_id,
          success |-> TRUE,
          data |-> data,
          metadata |-> [provider |-> "openliga", upstreamLatency |-> upstream_latency]]

\* the 422 FastAPI answers when the body is no ProxyRequest
RequestValidationError ==
    [status_code |-> 422, content |-> [detail |-> "literal_error"]]

(***************************************************************************)
(* The inputs                                                              *)
(***************************************************************************)
\* The request bodies the tasks carry: a valid GetTeam, a GetLeagueMatches
\* without its season, a ListLeagues whose requestId is null, an operation
\* outside the enumeration, and a GetTeam whose teamId is a string.
RequestList ==
    <<[operationType |-> "GetTeam", requestId |-> StrV("req-1"),
       payload |-> [teamId |-> IntV(7)]],
      [operationType |-> "GetLeagueMatches", requestId |-> StrV("req-2"),
       payload |-> [leagueId |-> IntV(1)]],
      [operationType |-> "ListLeagues", requestId |-> NoneV, payload |-> <<>>],
      [operationType |-> "Bogus", requestId |-> StrV("req-3"), payload |-> <<>>],
      [operationType |-> "GetTeam", requestId |-> StrV("req-4"),
       payload |-> [teamId |-> StrV("seven")]]>>

RequestInputs == {RequestList[i] : i \in 1..Len(RequestList)}

\* The tasks are interchangeable: of two behaviours that differ only in which
\* task carries which request, one is kept.
InputNo(r) == CHOOSE i \in 1..Len(RequestList) : RequestList[i] = r
Canonical(req) == \A t, u \in Tasks : InputNo(req[t]) < InputNo(req[u]) => t = "t1"

TeamBody == DictV([TeamId |-> IntV(7), TeamName |-> StrV("FC Example")])
RawBodies == {TeamBody}

Statuses == {200, 404, 503}

Outcomes ==
    {[kind |-> "response", status_code |-> 200, body |-> b] : b \in RawBodies}
    \cup {[kind |-> "response", status_code |-> s, body |-> NoneV] : s \in Statuses \ {200}}
    \cup {[kind |-> k, status_code |-> 0, body |-> NoneV] : k \in {"TimeoutError", "ConnectError"}}

(***************************************************************************)
(* State                                                                   *)
(***************************************************************************)
VARIABLES
    now,              \* the clock (time.monotonic, time.time)
    requests,         \* RateLimiter.requests of the one adapter
    adapters,         \* manager._adapters: the cached adapter of each name
    mapper,           \* proxy._mapper: None, or the mapper and its decisions
    client,           \* OpenLigaDBAdapter.client
    request,          \* per task: the request body it carries
    pc,               \* per task: where it is
    retry_count,      \* per task: retry_count of its current _fetch
    start_time,       \* per task: when its pending client.get was issued
    wake,             \* per task: when its asyncio.sleep is over
    upstream_url,     \* per task: the url its adapter method built
    adapter_response, \* per task: what decision.execute returned
    success_response, \* per task: the SuccessResponse it built
    responses,        \* per task: the HTTP responses sent for it
    outcomes,         \* per task: the outcomes of its upstream calls so far
    admissions,       \* per task: the admissions the limiter gave it
    sleeps,           \* per task: the asyncio.sleep calls it made
    calls,            \* the clock values at which upstream calls were issued
    call,             \* a function called on its own: its name and arguments
    result            \* what the calls of that function returned, in order

vars == <<now, requests, adapters, mapper, client, request, pc, retry_count,
          start_time, wake, upstream_url, adapter_response, success_response,
          responses, outcomes, admissions, sleeps, calls, call, result>>

shared == <<requests, adapters, mapper, client, calls>>
fetching == <<retry_count, start_time, wake, upstream_url, outcomes, admissions, sleeps>>
pure == <<call, result>>

Init ==
    /\ now = 0
    /\ requests = <<>>
    /\ adapters = <<>>
    /\ mapper = NoneV
    /\ client = NoneV
    /\ request \in {req \in [Tasks -> RequestInputs] : Canonical(req)}
    /\ pc = [t \in Tasks |-> "http"]
    /\ retry_count = [t \in Tasks |-> 0]
    /\ start_time = [t \in Tasks |-> 0]
    /\ wake = [t \in Tasks |-> 0]
    /\ upstream_url = [t \in Tasks |-> NoneV]
    /\ adapter_response = [t \in Tasks |-> NoneV]
    /\ success_response = [t \in Tasks |-> NoneV]
    /\ responses = [t \in Tasks |-> <<>>]
    /\ outcomes = [t \in Tasks |-> <<>>]
    /\ admissions = [t \in Tasks |-> 0]
    /\ sleeps = [t \in Tasks |-> 0]
    /\ calls = <<>>
    /\ call = NoneV
    /\ result = <<>>

\* the task answers with an HTTPException and is over
Raise(t, exc) ==
    /\ responses' = [responses EXCEPT ![t] = Append(@, http_exception_handler(exc))]
    /\ pc' = [pc EXCEPT ![t] = "Errored"]

\* time passes
Tick ==
    /\ now < MaxTime
    /\ now' = now + 1
    /\ UNCHANGED <<pure, shared, fetching, request, pc, adapter_response,
                   success_response, responses>>

\* FastAPI parses the body into ProxyRequest: operationType is a Literal
ParseRequest(t) ==
    /\ pc[t] = "http"
    /\ IF request[t].operationType \in OperationType
       THEN /\ pc' = [pc EXCEPT ![t] = "Received"]
            /\ UNCHANGED responses
       ELSE /\ pc' = [pc EXCEPT ![t] = "Rejected"]
            /\ responses' = [responses EXCEPT ![t] = Append(@, RequestValidationError)]
    /\ UNCHANGED <<pure, now, shared, fetching, request, adapter_response, success_response>>

\* execute_proxy, lines 37-58
ValidateOperation(t) ==
    /\ pc[t] = "Received"
    /\ LET v == validate_operation_type(request[t].operationType)
       IN IF v[1]
          THEN /\ pc' = [pc EXCEPT ![t] = "OperationValidated"]
               /\ UNCHANGED responses
          ELSE Raise(t, error_response(request[t].requestId, 400,
                                       "UNKNOWN_OPERATION", v[2], NoneV))
    /\ UNCHANGED <<pure, now, shared, fetching, request, adapter_response, success_response>>

\* execute_proxy, lines 60-78
ValidatePayload(t) ==
    /\ pc[t] = "OperationValidated"
    /\ LET v == validate_payload(request[t].operationType, request[t].payload)
       IN IF v[1]
          THEN /\ pc' = [pc EXCEPT ![t] = "PayloadValidated"]
               /\ UNCHANGED responses
          ELSE Raise(t, error_response(request[t].requestId, 400,
                                       "VALIDATION_ERROR", v[2], v[3]))
    /\ UNCHANGED <<pure, now, shared, fetching, request, adapter_response, success_response>>

\* _fetch whose retries go to the network without consulting the limiter
FetchEntry_retries_unlimited(t, rc) ==
    LET a == IF rc > 0 THEN [allowed |-> TRUE, requests |-> requests]
             ELSE is_allowed(requests, now, RATE_LIMIT, RATE_WINDOW)
        remaining == get_remaining(a.requests, now, RATE_LIMIT, RATE_WINDOW)
        reset_time == get_reset_time(remaining.requests, now, RATE_WINDOW)
    IN /\ retry_count' = [retry_count EXCEPT ![t] = rc]
       /\ IF a.allowed
          THEN /\ requests' = a.requests
               /\ client' = get_client(client)
               /\ admissions' = [admissions EXCEPT ![t] = IF rc > 0 THEN @ ELSE @ + 1]
               /\ calls' = Append(calls, now)
               /\ start_time' = [start_time EXCEPT ![t] = now]
               /\ pc' = [pc EXCEPT ![t] = "calling"]
               /\ UNCHANGED responses
          ELSE /\ requests' = remaining.requests
               /\ Raise(t, [status_code |-> 429, detail |-> RateLimitDetail(reset_time)])
               /\ UNCHANGED <<client, admissions, calls, start_time>>

\* _fetch, lines 37-42, entered with retry_count rc: check_rate_limit, then
\* either the HTTPException of a denial, which nothing on the way up
\* converts, or _get_client and client.get
FetchEntry(t, rc) ==
    LET a == is_allowed(requests, now, RATE_LIMIT, RATE_WINDOW)
        remaining == get_remaining(a.requests, now, RATE_LIMIT, RATE_WINDOW)
        reset_time == get_reset_time(remaining.requests, now, RATE_WINDOW)
    IN /\ retry_count' = [retry_count EXCEPT ![t] = rc]
       /\ IF a.allowed
          THEN /\ requests' = a.requests
               /\ client' = get_client(client)
               /\ admissions' = [admissions EXCEPT ![t] = @ + 1]
               /\ calls' = Append(calls, now)
               /\ start_time' = [start_time EXCEPT ![t] = now]
               /\ pc' = [pc EXCEPT ![t] = "calling"]
               /\ UNCHANGED responses
          ELSE /\ requests' = remaining.requests
               /\ Raise(t, [status_code |-> 429, detail |-> RateLimitDetail(reset_time)])
               /\ UNCHANGED <<client, admissions, calls, start_time>>

\* execute_proxy, lines 80-87: get_mapper (get_adapter, register_all),
\* get_decision, decision.execute, the adapter method, and _fetch up to its
\* first await that suspends
Execute(t) ==
    /\ pc[t] = "PayloadValidated"
    /\ adapters' = get_mapper(mapper, adapters).adapters
    /\ mapper' = get_mapper(mapper, adapters).mapper
    /\ LET decision == get_decision(mapper'.v, request[t].operationType)
           url == IF decision = NoneV THEN Exc("ValueError")
                  ELSE AdapterUrl(decision.adapter_method,
                                  Kwargs(decision.payload_mapping, request[t].payload))
       IN IF IsExc(url)
          THEN /\ Raise(t, InternalError(request[t].requestId))
               /\ UNCHANGED <<requests, client, calls, fetching>>
          ELSE /\ upstream_url' = [upstream_url EXCEPT ![t] = url]
               /\ FetchEntry(t, 0)
               /\ UNCHANGED <<wake, outcomes, sleeps>>
    /\ UNCHANGED <<pure, now, request, adapter_response, success_response>>

\* client.get comes back with outcome o: _fetch, lines 43-101
Receive(t, o) ==
    /\ pc[t] = "calling"
    /\ outcomes' = [outcomes EXCEPT ![t] = Append(@, [kind |-> o.kind, status_code |-> o.status_code])]
    /\ start_time' = [start_time EXCEPT ![t] = 0]
    /\ LET f == fetch_outcome(o, retry_count[t], (now - start_time[t]) * 1000, upstream_url[t])
       IN CASE f.do = "return" ->
                /\ adapter_response' = [adapter_response EXCEPT ![t] = f.value]
                /\ pc' = [pc EXCEPT ![t] = "Fetched"]
                /\ UNCHANGED <<wake, sleeps, responses>>
            [] f.do = "retry" ->
                \E delay \in exponential_backoff(retry_count[t],
                                                  FloatV(BACKOFF_BASE_DELAY),
                                                  FloatV(BACKOFF_MAX_DELAY),
                                                  BACKOFF_JITTER) :
                    IF IsExc(delay)
                    THEN /\ Raise(t, InternalError(request[t].requestId))
                         /\ UNCHANGED <<adapter_response, wake, sleeps>>
                    ELSE /\ wake' = [wake EXCEPT ![t] = now + delay.v]
                         /\ sleeps' = [sleeps EXCEPT ![t] = @ + 1]
                         /\ pc' = [pc EXCEPT ![t] = "sleeping"]
                         /\ UNCHANGED <<adapter_response, responses>>
            [] f.do = "raise" ->
                /\ Raise(t, InternalError(request[t].requestId))
                /\ UNCHANGED <<adapter_response, wake, sleeps>>
    /\ UNCHANGED <<pure, now, shared, request, retry_count, upstream_url, admissions,
                   success_response>>

\* asyncio.sleep is over: return await self._fetch(url, retry_count + 1)
Retry(t) ==
    /\ pc[t] = "sleeping"
    /\ now >= wake[t]
    /\ wake' = [wake EXCEPT ![t] = 0]
    /\ FetchEntry(t, retry_count[t] + 1)
    /\ UNCHANGED <<pure, now, adapters, mapper, request, upstream_url, outcomes, sleeps,
                   adapter_response, success_response>>

\* execute_proxy, lines 88-112
CheckStatus(t) ==
    /\ pc[t] = "Fetched"
    /\ IF adapter_response[t].status_code # 200
       THEN Raise(t, error_response(request[t].requestId, 502, "UPSTREAM_ERROR",
                                    StrV("Upstream API failed after retries"),
                                    adapter_response[t].data))
       ELSE /\ pc' = [pc EXCEPT ![t] = "Executed"]
            /\ UNCHANGED responses
    /\ UNCHANGED <<pure, now, shared, fetching, request, adapter_response, success_response>>

\* execute_proxy, lines 114-125 and the `except Exception` clause
Normalize(t) ==
    /\ pc[t] = "Executed"
    /\ LET normalized_data == normalize_response(request[t].operationType,
                                                 adapter_response[t].data)
           built == IF IsExc(normalized_data) THEN normalized_data
                    ELSE SuccessResponse(request[t].requestId, normalized_data,
                                         adapter_response[t].latency_ms)
       IN IF IsExc(built)
          THEN /\ Raise(t, InternalError(request[t].requestId))
               /\ UNCHANGED success_response
          ELSE /\ success_response' = [success_response EXCEPT ![t] = built]
               /\ pc' = [pc EXCEPT ![t] = "Normalized"]
               /\ UNCHANGED responses
    /\ UNCHANGED <<pure, now, shared, fetching, request, adapter_response>>

\* execute_proxy, lines 127-134
Respond(t) ==
    /\ pc[t] = "Normalized"
    /\ responses' = [responses EXCEPT ![t] =
                        Append(@, [status_code |-> 200, content |-> success_response[t]])]
    /\ pc' = [pc EXCEPT ![t] = "Responded"]
    /\ UNCHANGED <<pure, now, shared, fetching, request, adapter_response, success_response>>

Next ==
    \/ Tick
    \/ \E t \in Tasks : ParseRequest(t)
    \/ \E t \in Tasks : ValidateOperation(t)
    \/ \E t \in Tasks : ValidatePayload(t)
    \/ \E t \in Tasks : Execute(t)
    \/ \E t \in Tasks, o \in Outcomes : Receive(t, o)
    \/ \E t \in Tasks : Retry(t)
    \/ \E t \in Tasks : CheckStatus(t)
    \/ \E t \in Tasks : Normalize(t)
    \/ \E t \in Tasks : Respond(t)

Spec == Init /\ [][Next]_vars

(***************************************************************************)
(* The functions called on their own: normalize_response on the raw        *)
(* payloads an upstream may send, and exponential_backoff on the attempt   *)
(* numbers and delays a configuration may give it.                         *)
(***************************************************************************)
LeagueRaw ==
    DictV([LeagueId |-> IntV(1), LeagueName |-> StrV("Bundesliga"),
           LeagueShortcut |-> StrV("bl1"), CurrentSeason |-> IntV(2024)])

MatchRaw ==
    DictV([MatchID |-> IntV(1),
           Team1 |-> DictV([TeamId |-> IntV(7), TeamName |-> StrV("FC Example")]),
           Team2 |-> DictV([TeamId |-> IntV(8), TeamName |-> StrV("SV Other")]),
           MatchDateTime |-> StrV("2024-05-18T15:30:00"),
           MatchResults |-> ListV(<<DictV([PointsTeam1 |-> IntV(2),
                                           PointsTeam2 |-> IntV(1)])>>)])

\* a match record whose nested fields are null or absent
MatchNulls ==
    DictV([MatchID |-> IntV(2), Team1 |-> NoneV, MatchResults |-> NoneV])

\* a match record whose team is a string, and one whose results hold a number
MatchTeamStr == DictV([MatchID |-> IntV(3), Team1 |-> StrV("FC Example")])
MatchResultsInt == DictV([MatchID |-> IntV(4), MatchResults |-> ListV(<<IntV(2)>>)])

\* records that carry a field under both names, the upstream one holding 0
\* or the empty string; a record with the upstream 0 alone; and a record
\* with the pre-normalized names alone
TeamFalsy ==
    DictV([TeamId |-> IntV(0), TeamName |-> StrV(""),
           id |-> IntV(5), name |-> StrV("Old Name")])
TeamZero == DictV([TeamId |-> IntV(0)])
TeamPre == DictV([id |-> IntV(5), name |-> StrV("Old Name")])
LeagueFalsy ==
    DictV([LeagueId |-> IntV(0), LeagueName |-> StrV("Cup"),
           LeagueShortcut |-> StrV(""), country |-> StrV("de"), id |-> IntV(9)])

RawShapes ==
    {NoneV, IntV(5), StrV("text"), EmptyDict, EmptyList,
     TeamBody, LeagueRaw, MatchRaw, MatchNulls, MatchTeamStr, MatchResultsInt,
     TeamFalsy, TeamZero, TeamPre, ListV(<<LeagueFalsy>>),
     ListV(<<LeagueRaw>>), ListV(<<MatchRaw>>), ListV(<<MatchRaw, MatchNulls>>),
     ListV(<<IntV(1)>>), ListV(<<NoneV>>)}

\* Bounds of the calls of exponential_backoff
MaxAttempt == 1025
MaxBase == 3
MaxDelay == 4

NormalizeCalls ==
    {[fn |-> "normalize_response", operation_type |-> op, data |-> d] :
        op \in OperationType, d \in RawShapes}

BackoffCalls ==
    {[fn |-> "exponential_backoff", retry_count |-> n, base_delay |-> FloatV(b),
      max_delay |-> FloatV(m), jitter |-> j] :
        n \in 0..MaxAttempt, b \in 1..MaxBase, m \in 1..MaxDelay, j \in BOOLEAN}

InitCalls ==
    /\ now = 0
    /\ requests = <<>>
    /\ adapters = <<>>
    /\ mapper = NoneV
    /\ client = NoneV
    /\ request = [t \in Tasks |-> RequestList[1]]
    /\ pc = [t \in Tasks |-> "http"]
    /\ retry_count = [t \in Tasks |-> 0]
    /\ start_time = [t \in Tasks |-> 0]
    /\ wake = [t \in Tasks |-> 0]
    /\ upstream_url = [t \in Tasks |-> NoneV]
    /\ adapter_response = [t \in Tasks |-> NoneV]
    /\ success_response = [t \in Tasks |-> NoneV]
    /\ responses = [t \in Tasks |-> <<>>]
    /\ outcomes = [t \in Tasks |-> <<>>]
    /\ admissions = [t \in Tasks |-> 0]
    /\ sleeps = [t \in Tasks |-> 0]
    /\ calls = <<>>
    /\ call \in NormalizeCalls \cup BackoffCalls
    /\ result = <<>>

pipeline == <<now, shared, fetching, request, pc, adapter_response,
              success_response, responses>>

\* normalize_response(operation_type, data), and then once more on what the
\* first call returned
CallNormalize ==
    /\ call.fn = "normalize_response"
    /\ Len(result) < 2
    /\ result # <<>> => ~IsExc(result[1])
    /\ result' = Append(result,
                        normalize_response(call.operation_type,
                                           IF result = <<>> THEN call.data
                                           ELSE result[1]))
    /\ UNCHANGED <<call, pipeline>>

\* exponential_backoff(retry_count, base_delay, max_delay, jitter)
CallBackoff ==
    /\ call.fn = "exponential_backoff"
    /\ result = <<>>
    /\ \E d \in exponential_backoff(call.retry_count, call.base_delay,
                                    call.max_delay, call.jitter) :
            result' = <<d>>
    /\ UNCHANGED <<call, pipeline>>

NextCalls ==
    \/ CallNormalize
    \/ CallBackoff

SpecCalls == InitCalls /\ [][NextCalls]_vars

(***************************************************************************)
(* Observations on a state                                                 *)
(***************************************************************************)
\* the upstream calls issued at a clock value in lo..hi
CallsWithin(lo, hi) == {i \in 1..Len(calls) : lo <= calls[i] /\ calls[i] <= hi}

\* the upstream calls task t has issued
Attempts(t) == Len(outcomes[t]) + IF pc[t] = "calling" THEN 1 ELSE 0

\* the bodies of the responses sent for task t
Sent(t) == {responses[t][i] : i \in 1..Len(responses[t])}

\* the limiter turned task t away
Denied(t) == \E r \in Sent(t) : r.status_code = 429

\* the limiter is consulted in this step, and admits or denies
Admitting == Len(calls') = Len(calls) + 1
Denying == \E t \in Tasks : ~Denied(t) /\ Denied(t)'

(***************************************************************************)
(* C1: sliding-window bound.  At every clock value the calls admitted in   *)
(* the trailing window [now - window, now] number at most limit, and a     *)
(* call is admitted iff fewer than limit admitted timestamps are left once *)
(* those strictly older than now - window are discarded.                   *)
(***************************************************************************)
C1_WindowBound ==
    Cardinality(CallsWithin(now - RATE_WINDOW, now)) <= RATE_LIMIT

C1_AdmittedIff ==
    /\ Admitting => Cardinality(CallsWithin(now - RATE_WINDOW, now)) < RATE_LIMIT
    /\ Denying => Cardinality(CallsWithin(now - RATE_WINDOW, now)) >= RATE_LIMIT

C1_SlidingWindow == [] C1_WindowBound /\ [][C1_AdmittedIff]_vars

\* a full window has turned a call away, and a later call was admitted
\* once the window had moved on
C1_Witness ==
    /\ \E t \in Tasks : Denied(t)
    /\ Len(calls) > RATE_LIMIT

(***************************************************************************)
(* C2: under every interleaving of the tasks that share the limiter, each  *)
(* upstream call has an admission of its own, and the calls issued within  *)
(* any window of length window number at most limit.                       *)
(***************************************************************************)
RECURSIVE SumOver(_, _)
SumOver(f, S) ==
    IF S = {} THEN 0
    ELSE LET x == CHOOSE y \in S : TRUE IN f[x] + SumOver(f, S \ {x})

C2_AtomicAdmission ==
    /\ \A w \in 0..MaxTime :
            Cardinality(CallsWithin(w, w + RATE_WINDOW)) <= RATE_LIMIT
    /\ \A t \in Tasks : Attempts(t) = admissions[t]
    /\ SumOver(admissions, Tasks) = Len(calls)

\* two tasks hold the slots of one window between them and a call of one
\* of them was turned away
C2_Witness ==
    \E t, u \in Tasks :
        /\ t # u
        /\ admissions[t] >= 1
        /\ admissions[u] >= 1
        /\ Denied(u)
        /\ Cardinality(CallsWithin(now - RATE_WINDOW, now)) = RATE_LIMIT

(***************************************************************************)
(* C3: against a provider that always answers 503.                         *)
(***************************************************************************)
\* every upstream call of task t so far was answered 503
All503(t) ==
    /\ Len(outcomes[t]) >= 1
    /\ \A i \in 1..Len(outcomes[t]) : outcomes[t][i].status_code = 503

InFetchLoop(t) == pc[t] \in {"calling", "sleeping"}

\* fetch has made maxRetries retries, maxRetries + 1 calls, and returned 503
RetriedToTheEnd503(t) ==
    /\ adapter_response[t] # NoneV
    /\ adapter_response[t].status_code = 503
    /\ Len(outcomes[t]) = BACKOFF_MAX_RETRIES + 1
    /\ sleeps[t] = BACKOFF_MAX_RETRIES
    /\ retry_count[t] = BACKOFF_MAX_RETRIES

\* C3 as claimed: against a provider that always answers 503, fetch retries
\* exactly maxRetries times and then returns an UpstreamResult with status
\* 503, after maxRetries + 1 network attempts.
C3_Always503_AsClaimed ==
    \A t \in Tasks : (All503(t) /\ ~InFetchLoop(t)) => RetriedToTheEnd503(t)

\* C3, amended: the same, provided the rate limiter admits every attempt;
\* a fetch whose retry the limiter denies ends there, after fewer attempts
\* and without an UpstreamResult.
C3_Always503 ==
    \A t \in Tasks :
        All503(t) =>
            /\ Len(outcomes[t]) <= BACKOFF_MAX_RETRIES + 1
            /\ (~InFetchLoop(t) /\ ~Denied(t)) => RetriedToTheEnd503(t)
            /\ Denied(t) => /\ adapter_response[t] = NoneV
                            /\ Len(outcomes[t]) <= BACKOFF_MAX_RETRIES

C3_Witness == \E t \in Tasks : All503(t) /\ RetriedToTheEnd503(t)

StatusFor(o) == IF o.kind = "response" THEN o.status_code ELSE 504

Returned(t) == pc[t] \in {"Fetched", "Executed", "Normalized", "Responded"}

C5_Bound ==
    \A t \in Tasks :
        /\ Attempts(t) <= BACKOFF_MAX_RETRIES + 1
        /\ retry_count[t] <= BACKOFF_MAX_RETRIES
        /\ Returned(t) => adapter_response[t] # NoneV
        /\ adapter_response[t] # NoneV =>
              /\ ~InFetchLoop(t)
              /\ Len(outcomes[t]) >= 1
              /\ outcomes[t][Len(outcomes[t])].kind \in {"response", "TimeoutError"}
              /\ adapter_response[t].status_code = StatusFor(outcomes[t][Len(outcomes[t])])

C5_Step ==
    \A t \in Tasks :
        \* an attempt starts only when the outcomes of all earlier ones are in
        /\ admissions'[t] # admissions[t] =>
              /\ admissions'[t] = admissions[t] + 1
              /\ Len(outcomes[t]) = admissions[t]
              /\ pc[t] # "calling"
        \* the result, once produced, is the only one
        /\ adapter_response[t] # NoneV =>
              /\ adapter_response'[t] = adapter_response[t]
              /\ outcomes'[t] = outcomes[t]
              /\ admissions'[t] = admissions[t]

C5_BoundedRetry == [] C5_Bound /\ [][C5_Step]_vars

\* a fetch that used every retry, on timeouts and statuses both, and returned
C5_Witness ==
    \E t \in Tasks :
        /\ Len(outcomes[t]) = BACKOFF_MAX_RETRIES + 1
        /\ adapter_response[t] # NoneV
        /\ \E i \in 1..Len(outcomes[t]) : outcomes[t][i].kind = "TimeoutError"
        /\ \E i \in 1..Len(outcomes[t]) : outcomes[t][i].kind = "response"

(***************************************************************************)
(* Observations on the responses                                           *)
(***************************************************************************)
\* the request of task t was handed to execute_proxy
Entered(t) == pc[t] \notin {"http", "Rejected"}

Finished(t) == pc[t] \in {"Responded", "Errored"}

IsSuccessEnvelope(c) ==
    /\ DOMAIN c = {"requestId", "success", "data", "metadata"}
    /\ c.success = TRUE

IsFailureEnvelope(c) ==
    /\ DOMAIN c = {"requestId", "success", "error"}
    /\ c.success = FALSE
    /\ {"code", "message"} \subseteq DOMAIN c.error

\* the dict `details` has a value that is, or is formatted from, the number n
Embeds(details, n) ==
    /\ details.t = "dict"
    /\ \E k \in DOMAIN details.v :
            \/ details.v[k] = IntV(n)
            \/ /\ details.v[k].t = "str"
               /\ "arg" \in DOMAIN details.v[k]
               /\ details.v[k].arg = n

AllTimeouts(t) ==
    /\ Len(outcomes[t]) >= 1
    /\ \A i \in 1..Len(outcomes[t]) : outcomes[t][i].kind = "TimeoutError"

(***************************************************************************)
(* C6 as claimed: an attempt that fails with a timeout or a connection     *)
(* failure while retries are left is followed by the backoff sleep and a   *)
(* retry; timeouts up to the last retry end in the synthetic result with   *)
(* status 504 and the configured timeout as latency.                       *)
(***************************************************************************)
C6_TransportFailureRetried ==
    \A t \in Tasks : \A i \in 1..Len(outcomes[t]) :
        outcomes[t][i].kind \in {"TimeoutError", "ConnectError"} =>
            /\ i <= BACKOFF_MAX_RETRIES => sleeps[t] >= i
            /\ (i = BACKOFF_MAX_RETRIES + 1 /\ AllTimeouts(t)) =>
                  /\ adapter_response[t] # NoneV
                  /\ adapter_response[t].status_code = 504
                  /\ adapter_response[t].latency_ms = OPENLIGADB_TIMEOUT * 1000

(***************************************************************************)
(* C7 as claimed: with maxRetries = 2 and a provider that always times     *)
(* out, a request the limiter lets through makes 3 upstream attempts and   *)
(* is answered with an UPSTREAM_ERROR envelope whose details embed the     *)
(* status 504.                                                             *)
(***************************************************************************)
C7_TimeoutEnvelope ==
    \A t \in Tasks :
        (BACKOFF_MAX_RETRIES = 2 /\ AllTimeouts(t) /\ Finished(t) /\ ~Denied(t)) =>
            /\ Len(outcomes[t]) = 3
            /\ Len(responses[t]) = 1
            /\ IsFailureEnvelope(responses[t][1].content)
            /\ responses[t][1].content.error.code = "UPSTREAM_ERROR"
            /\ Embeds(responses[t][1].content.error.details, 504)

(***************************************************************************)
(* C8 as claimed: a request handed to execute_proxy is answered exactly    *)
(* once, with a body that is either a Success envelope or a Failure        *)
(* envelope.                                                               *)
(***************************************************************************)
C8_OneEnvelope ==
    \A t \in Tasks :
        Entered(t) =>
            /\ Len(responses[t]) <= 1
            /\ Finished(t) => Len(responses[t]) = 1
            /\ \A r \in Sent(t) :
                  IsSuccessEnvelope(r.content) # IsFailureEnvelope(r.content)

(***************************************************************************)
(* C9: the stages of a request follow one another in the order Received,   *)
(* OperationValidated, PayloadValidated, Executed, Normalized, Responded;  *)
(* Errored is entered from a stage before Responded and never left, and    *)
(* nothing is sent after it; a request whose operation is unknown or whose *)
(* payload lacks a required field gets no admission and makes no upstream  *)
(* call.                                                                   *)
(***************************************************************************)
StageOf(p) ==
    CASE p \in {"http", "Received"} -> "Received"
      [] p = "OperationValidated" -> "OperationValidated"
      [] p \in {"PayloadValidated", "calling", "sleeping", "Fetched"} -> "PayloadValidated"
      [] p = "Executed" -> "Executed"
      [] p = "Normalized" -> "Normalized"
      [] p = "Responded" -> "Responded"
      [] p \in {"Errored", "Rejected"} -> "Errored"

Rank(stage) ==
    CASE stage = "Received" -> 1
      [] stage = "OperationValidated" -> 2
      [] stage = "PayloadValidated" -> 3
      [] stage = "Executed" -> 4
      [] stage = "Normalized" -> 5
      [] stage = "Responded" -> 6
      [] stage = "Errored" -> 7

\* the request of task t names no known operation, or lacks a required field
FailsValidation(t) ==
    \/ request[t].operationType \notin OperationType
    \/ \E i \in 1..Len(OPERATION_SCHEMAS[request[t].operationType].required) :
            OPERATION_SCHEMAS[request[t].operationType].required[i]
                \notin DOMAIN request[t].payload

C9_Stages ==
    \A t \in Tasks :
        /\ FailsValidation(t) =>
              /\ admissions[t] = 0
              /\ outcomes[t] = <<>>
              /\ StageOf(pc[t]) \in {"Received", "OperationValidated", "Errored"}
        /\ Rank(StageOf(pc[t])) < Rank("PayloadValidated") => admissions[t] = 0
        /\ StageOf(pc[t]) = "Errored" =>
              \A r \in Sent(t) : ~IsSuccessEnvelope(r.content)
        /\ (\E r \in Sent(t) : IsSuccessEnvelope(r.content)) => pc[t] = "Responded"

C9_Step ==
    \A t \in Tasks :
        LET a == StageOf(pc[t])
            b == StageOf(pc'[t])
        IN /\ a # b =>
                /\ a \notin {"Responded", "Errored"}
                /\ b = "Errored" \/ Rank(b) = Rank(a) + 1
           /\ a \in {"Responded", "Errored"} =>
                /\ pc'[t] = pc[t]
                /\ responses'[t] = responses[t]
                /\ admissions'[t] = admissions[t]
                /\ outcomes'[t] = outcomes[t]

C9_StateMachine == [] C9_Stages /\ [][C9_Step]_vars

\* a request without a required field has ended in Errored without an
\* admission, next to one that went through every stage
C9_Witness ==
    \E t, u \in Tasks :
        /\ request[t].operationType \in OperationType
        /\ FailsValidation(t)
        /\ pc[t] = "Errored"
        /\ admissions[t] = 0
        /\ pc[u] = "Responded"

(***************************************************************************)
(* C10 as claimed: every failure response to a request handed to           *)
(* execute_proxy carries the requestId of the request, the response to a   *)
(* denied admission included.                                              *)
(***************************************************************************)
C10_FailureCarriesRequestId ==
    \A t \in Tasks :
        Entered(t) =>
            \A r \in Sent(t) :
                r.status_code # 200 =>
                    /\ "requestId" \in DOMAIN r.content
                    /\ r.content.requestId = request[t].requestId

(***************************************************************************)
(* C11 as claimed: the failures of the execute step are classified.  A     *)
(* result of the fetch whose status is not 200 is answered with an         *)
(* UPSTREAM_ERROR envelope and is never normalized; a denied admission is  *)
(* answered with a RATE_LIMIT_EXCEEDED envelope of the shape {requestId,   *)
(* success: false, error: {code, message, details}}; any other fault is    *)
(* answered with INTERNAL_ERROR, a generic message and no details.         *)
(***************************************************************************)
\* the fetch of task t returned a result whose status is not 200
UpstreamFailed(t) ==
    /\ adapter_response[t] # NoneV
    /\ adapter_response[t].status_code # 200

\* a fault of task t that is neither a validation failure, nor an upstream
\* failure, nor a denial: an exception out of client.get, or out of the
\* steps after a 200
OtherFault(t) ==
    /\ pc[t] = "Errored"
    /\ Len(outcomes[t]) >= 1
    /\ ~Denied(t)
    /\ ~UpstreamFailed(t)

\* the one response of task t is a Failure envelope with this code
AnsweredWith(t, code) ==
    /\ Len(responses[t]) = 1
    /\ IsFailureEnvelope(responses[t][1].content)
    /\ DOMAIN responses[t][1].content.error = {"code", "message", "details"}
    /\ responses[t][1].content.error.code = code

C11_FailureClassification ==
    \A t \in Tasks :
        /\ UpstreamFailed(t) =>
              /\ pc[t] \in {"Fetched", "Errored"}
              /\ success_response[t] = NoneV
              /\ pc[t] = "Errored" => AnsweredWith(t, "UPSTREAM_ERROR")
        /\ Denied(t) => AnsweredWith(t, "RATE_LIMIT_EXCEEDED")
        /\ OtherFault(t) =>
              /\ AnsweredWith(t, "INTERNAL_ERROR")
              /\ responses[t][1].content.error.message = StrV("Internal server error")
              /\ responses[t][1].content.error.details = NoneV

(***************************************************************************)
(* C12 as claimed: a request whose operationType is outside the            *)
(* enumeration is answered with a Failure envelope whose code is           *)
(* UNKNOWN_OPERATION, under an HTTP status of the client-error class.      *)
(***************************************************************************)
C12_UnknownOperation ==
    \A t \in Tasks :
        (request[t].operationType \notin OperationType /\ pc[t] # "http") =>
            /\ Len(responses[t]) = 1
            /\ responses[t][1].status_code \in 400..499
            /\ IsFailureEnvelope(responses[t][1].content)
            /\ responses[t][1].content.error.code = "UNKNOWN_OPERATION"

(***************************************************************************)
(* C13 as claimed: for a known operation, a payload in which a required    *)
(* field is missing or is not an integer is answered with a                *)
(* VALIDATION_ERROR envelope whose details map each offending field to     *)
(* {errorType, message}, and it never reaches the upstream call.           *)
(***************************************************************************)
\* the required fields of the operation that the payload of task t lacks or
\* gives with a value that is no integer
OffendingFields(t) ==
    LET required == OPERATION_SCHEMAS[request[t].operationType].required
    IN {required[i] : i \in {j \in 1..Len(required) :
            \/ required[j] \notin DOMAIN request[t].payload
            \/ request[t].payload[required[j]].t # "int"}}

IsPerFieldMap(details, fields) ==
    /\ details.t = "dict"
    /\ DOMAIN details.v = fields
    /\ \A f \in fields :
          /\ details.v[f].t = "dict"
          /\ DOMAIN details.v[f].v = {"errorType", "message"}

C13_PayloadValidation ==
    \A t \in Tasks :
        (request[t].operationType \in OperationType /\ OffendingFields(t) # {}) =>
            /\ admissions[t] = 0
            /\ outcomes[t] = <<>>
            /\ pc[t] \in {"http", "Received", "OperationValidated", "Errored"}
            /\ pc[t] = "Errored" =>
                  /\ AnsweredWith(t, "VALIDATION_ERROR")
                  /\ IsPerFieldMap(responses[t][1].content.error.details,
                                   OffendingFields(t))

(***************************************************************************)
(* C14 as claimed: when the result of the fetch has status 200, the        *)
(* request ends with a Success envelope that carries the requestId of the  *)
(* request, data equal to normalize(operation, raw payload), the provider  *)
(* name and the latency of the final attempt; GetTeam with raw             *)
(* {TeamId: 7, TeamName: "FC Example"} gives {id: 7, name: "FC Example",   *)
(* shortName: null, foundedYear: null, logo: null}.                        *)
(***************************************************************************)
NormalizedTeamExample ==
    DictV([id |-> IntV(7), name |-> StrV("FC Example"), shortName |-> NoneV,
           foundedYear |-> NoneV, logo |-> NoneV])

C14_SuccessEnvelope ==
    \A t \in Tasks :
        (adapter_response[t] # NoneV /\ adapter_response[t].status_code = 200) =>
            /\ pc[t] # "Errored"
            /\ Finished(t) =>
                  /\ Len(responses[t]) = 1
                  /\ responses[t][1].status_code = 200
                  /\ IsSuccessEnvelope(responses[t][1].content)
                  /\ responses[t][1].content.requestId = request[t].requestId
                  /\ responses[t][1].content.data =
                        normalize_response(request[t].operationType,
                                           adapter_response[t].data)
                  /\ responses[t][1].content.metadata.provider = "openliga"
                  /\ responses[t][1].content.metadata.upstreamLatency =
                        adapter_response[t].latency_ms
                  /\ (request[t].operationType = "GetTeam"
                        /\ adapter_response[t].data = TeamBody) =>
                        responses[t][1].content.data = NormalizedTeamExample

(***************************************************************************)
(* Observations on the calls                                               *)
(***************************************************************************)
Normalizing == call # NoneV /\ call.fn = "normalize_response"
BackingOff == call # NoneV /\ call.fn = "exponential_backoff"

\* x and y are the same Python value
RECURSIVE Same(_, _)
Same(x, y) ==
    IF x.t # y.t THEN FALSE
    ELSE CASE x.t = "dict" ->
                /\ DOMAIN x.v = DOMAIN y.v
                /\ \A k \in DOMAIN x.v : Same(x.v[k], y.v[k])
           [] x.t = "list" ->
                /\ Len(x.v) = Len(y.v)
                /\ \A i \in 1..Len(x.v) : Same(x.v[i], y.v[i])
           [] x.t = "None" -> TRUE
           [] OTHER -> x.v = y.v

\* the top-level shape the normalizer of an operation expects
ExpectedShape(operation_type) ==
    IF operation_type \in {"ListLeagues", "GetLeagueMatches"} THEN "list" ELSE "dict"

(***************************************************************************)
(* C15 as claimed: normalize_response is total.  For every operation and   *)
(* every raw input (object, list, scalar, null, a list with elements that  *)
(* are no objects, records whose nested fields are null or absent) it      *)
(* returns a value and raises nothing, and an input of the wrong top-level *)
(* shape gives the empty object or the empty list.                         *)
(***************************************************************************)
C15_NormalizeTotal ==
    (Normalizing /\ result # <<>>) =>
        /\ ~IsExc(result[1])
        /\ call.data.t # ExpectedShape(call.operation_type) =>
              /\ result[1].t = ExpectedShape(call.operation_type)
              /\ result[1].v = <<>>

(***************************************************************************)
(* C16 as claimed: the normalizers are idempotent.  Normalizing what       *)
(* normalize_response returned gives the same value again: every field it  *)
(* can recognize (id, team names, status, goals, result) is kept.          *)
(***************************************************************************)
C16_NormalizeIdempotent ==
    (Normalizing /\ Len(result) = 2) =>
        /\ ~IsExc(result[2])
        /\ Same(result[2], result[1])

(***************************************************************************)
(* C17 as claimed: for GetMatch, a raw payload that is a list of match     *)
(* records is normalized to a list with one record {id, team1, team2,      *)
(* date, status, goals1, goals2, result} per raw record, as GetLeagueMatches*)
(* normalizes the same list.                                               *)
(***************************************************************************)
IsMatchRecordList(data) ==
    /\ data.t = "list"
    /\ Len(data.v) >= 1
    /\ \A i \in 1..Len(data.v) :
          data.v[i].t = "dict" /\ "MatchID" \in DOMAIN data.v[i].v

C17_GetMatchListForm ==
    (/\ Normalizing
     /\ call.operation_type = "GetMatch"
     /\ IsMatchRecordList(call.data)
     /\ ~IsExc(normalize_matches(call.data))
     /\ result # <<>>) =>
        /\ ~IsExc(result[1])
        /\ result[1].t = "list"
        /\ Len(result[1].v) = Len(call.data.v)
        /\ \A i \in 1..Len(result[1].v) :
              DOMAIN result[1].v[i].v = {"id", "team1", "team2", "date", "status",
                                         "goals1", "goals2", "result"}
        /\ Same(result[1], normalize_matches(call.data))

(***************************************************************************)
(* The backoff delay                                                       *)
(***************************************************************************)
\* up to this attempt number base * 2^attempt is computed in full; beyond
\* it the product exceeds every max_delay of the calls
ExactAttempts == 20

(***************************************************************************)
(* C18 as claimed: without jitter, for every attempt >= 0 and every base   *)
(* and max the delay is min(base * 2^attempt, max); attempt 0 gives base   *)
(* when base <= max, and an arbitrarily large attempt gives exactly max.   *)
(***************************************************************************)
C18_BackoffNoJitter ==
    (BackingOff /\ ~call.jitter /\ result # <<>>) =>
        /\ ~IsExc(result[1])
        /\ call.retry_count <= ExactAttempts =>
              result[1].v = Min(call.base_delay.v * (2 ^ call.retry_count),
                                call.max_delay.v)
        /\ (call.retry_count = 0 /\ call.base_delay.v <= call.max_delay.v) =>
              result[1].v = call.base_delay.v
        /\ call.retry_count > ExactAttempts => result[1].v = call.max_delay.v

(***************************************************************************)
(* C19: with jitter, every delay d that exponential_backoff returns        *)
(* satisfies 0 <= d <= min(base * 2^attempt, max); no delay exceeds max.   *)
(***************************************************************************)
C19_BackoffJitter ==
    (BackingOff /\ call.jitter /\ result # <<>> /\ ~IsExc(result[1])) =>
        /\ 0 <= result[1].v
        /\ result[1].v <= call.max_delay.v
        /\ call.retry_count <= ExactAttempts =>
              result[1].v <= Min(call.base_delay.v * (2 ^ call.retry_count),
                                 call.max_delay.v)

\* a jittered delay drawn at the very top of a range that max_delay clamps
C19_Witness ==
    /\ BackingOff
    /\ call.jitter
    /\ call.retry_count >= 1
    /\ call.base_delay.v * (2 ^ Min(call.retry_count, ExactAttempts)) > call.max_delay.v
    /\ result # <<>>
    /\ ~IsExc(result[1])
    /\ result[1].v = call.max_delay.v

(***************************************************************************)
(* C20: recovery of the rate limiter.  Starting from an empty window the   *)
(* first limit calls are all admitted; a call is denied exactly when the   *)
(* limit-th most recent admission is still within window of the clock, so  *)
(* the call that follows limit admissions in the same window is denied,    *)
(* and once the clock is past window since those admissions a call is      *)
(* admitted again.                                                         *)
(***************************************************************************)
\* limit calls were admitted and the oldest of the last limit of them is
\* not yet more than window old
WindowFull ==
    /\ Len(calls) >= RATE_LIMIT
    /\ calls[Len(calls) - RATE_LIMIT + 1] >= now - RATE_WINDOW

C20_Step ==
    /\ Admitting => ~WindowFull
    /\ Denying => WindowFull

C20_Recovery == [][C20_Step]_vars

\* limit calls admitted at one clock value, the next call denied, and a
\* call admitted once the clock was past window since them
C20_Witness ==
    /\ Len(calls) > RATE_LIMIT
    /\ calls[1] = calls[RATE_LIMIT]
    /\ calls[RATE_LIMIT + 1] > calls[RATE_LIMIT] + RATE_WINDOW
    /\ \E t \in Tasks : Denied(t)

(***************************************************************************)
(* C21: every attempt of a fetch, the retries included, passes the rate    *)
(* limiter first.  An upstream call is issued only in a step that records  *)
(* an admission for it, a fetch has consumed as many slots as it has made  *)
(* attempts, and a denial at any attempt ends the fetch in that step with  *)
(* the rate-limit error: no call is issued, no sleep and no retry follows. *)
(***************************************************************************)
C21_State ==
    \A t \in Tasks :
        /\ Attempts(t) = admissions[t]
        /\ Denied(t) =>
              /\ pc[t] = "Errored"
              /\ adapter_response[t] = NoneV
              /\ Attempts(t) = Len(outcomes[t])
              /\ sleeps[t] = Len(outcomes[t])
              /\ wake[t] = 0

C21_Step ==
    \A t \in Tasks :
        \* a call goes out only with a slot recorded for it at this clock value
        /\ Attempts(t)' > Attempts(t) =>
              /\ admissions'[t] = admissions[t] + 1
              /\ Len(calls') = Len(calls) + 1
              /\ requests' = Append(Prune(requests, now, RATE_WINDOW), now)
        \* a denial issues no call and starts no sleep
        /\ (~Denied(t) /\ Denied(t)') =>
              /\ calls' = calls
              /\ admissions' = admissions
              /\ outcomes'[t] = outcomes[t]
              /\ sleeps'[t] = sleeps[t]
              /\ pc'[t] = "Errored"
        \* and nothing of the fetch moves after it
        /\ Denied(t) =>
              /\ admissions'[t] = admissions[t]
              /\ outcomes'[t] = outcomes[t]
              /\ sleeps'[t] = sleeps[t]
              /\ pc'[t] = pc[t]

C21_EveryAttemptAdmitted == [] C21_State /\ [][C21_Step]_vars

\* a fetch whose retry consumed a slot of its own and whose next retry the
\* limiter denied
C21_Witness ==
    \E t \in Tasks :
        /\ Denied(t)
        /\ admissions[t] >= 2
        /\ Len(outcomes[t]) = admissions[t]

(***************************************************************************)
(* C22: a denied admission records nothing.  The step in which the limiter *)
(* denies a call leaves exactly the timestamps that are within the window, *)
(* the clock value of the denied call is not among the new ones, and at    *)
(* every later clock value the limiter answers as it would have answered   *)
(* without the denied call.                                                *)
(***************************************************************************)
\* the timestamps of the deque that are within the window at clock value time
InWindow(reqs, time) == SelectSeq(reqs, LAMBDA ts : ts >= time - RATE_WINDOW)

C22_Step ==
    Denying =>
        /\ requests' = InWindow(requests, now)
        /\ Len(requests') <= Len(requests)
        /\ \A time \in now..MaxTime + 1 :
              is_allowed(requests', time, RATE_LIMIT, RATE_WINDOW).allowed
                = is_allowed(requests, time, RATE_LIMIT, RATE_WINDOW).allowed

C22_DenialRecordsNothing == [][C22_Step]_vars

\* both tasks were denied, and the deque still holds no more than the
\* admitted calls of the window
C22_Witness ==
    /\ \A t \in Tasks : Denied(t)
    /\ Len(requests) = RATE_LIMIT
    /\ \A i \in 1..Len(requests) : \E j \in 1..Len(calls) : requests[i] = calls[j]

(***************************************************************************)
(* C23: a status that is neither 200 nor one of 429, 500, 502, 503, 504 is *)
(* never retried.  The attempt that received it is the last one of the     *)
(* fetch: the fetch returns a result with that status and an error         *)
(* payload, and no sleep and no further attempt follows the response.      *)
(***************************************************************************)
NotRetried(status_code) == status_code \notin {200, 429, 500, 502, 503, 504}

C23_OtherStatusNotRetried ==
    \A t \in Tasks : \A i \in 1..Len(outcomes[t]) :
        (outcomes[t][i].kind = "response" /\ NotRetried(outcomes[t][i].status_code)) =>
            /\ i = Len(outcomes[t])
            /\ Attempts(t) = i
            /\ sleeps[t] = i - 1
            /\ ~InFetchLoop(t)
            /\ ~Denied(t)
            /\ adapter_response[t] # NoneV
            /\ adapter_response[t].status_code = outcomes[t][i].status_code
            /\ adapter_response[t].data.t = "dict"
            /\ "error" \in DOMAIN adapter_response[t].data.v

\* a 404 at the first attempt: one call, no sleep, the result returned
C23_Witness ==
    \E t \in Tasks :
        /\ Len(outcomes[t]) = 1
        /\ outcomes[t][1].status_code = 404
        /\ adapter_response[t] # NoneV
        /\ adapter_response[t].status_code = 404
        /\ sleeps[t] = 0
        /\ admissions[t] = 1

(***************************************************************************)
(* C24 as claimed: in every reachable state of the limiter and at every    *)
(* clock value, get_remaining() is max(0, limit - number of timestamps     *)
(* within the window) and get_reset_time() is the time until the oldest    *)
(* timestamp within the window falls out of it, 0 when none is within the  *)
(* window, stale timestamps still in the deque or not.                     *)
(***************************************************************************)
ExpectedRemaining == Max(0, RATE_LIMIT - Len(InWindow(requests, now)))

ExpectedResetTime ==
    IF InWindow(requests, now) = <<>> THEN 0
    ELSE InWindow(requests, now)[1] + RATE_WINDOW - now

C24_RemainingAndReset ==
    /\ get_remaining(requests, now, RATE_LIMIT, RATE_WINDOW).remaining = ExpectedRemaining
    /\ get_reset_time(requests, now, RATE_WINDOW) = ExpectedResetTime

(***************************************************************************)
(* C25 as claimed: the retry-after hint is sound.  When a call is denied   *)
(* at clock value t and the reset time reported with the denial is r, a    *)
(* call made at t + r, with no call admitted in between, is admitted.      *)
(***************************************************************************)
\* the reset time in the message of the response that denied task t
ReportedReset(t) == responses[t][Len(responses[t])].content.message.arg

C25_Step ==
    \A t \in Tasks :
        (~Denied(t) /\ Denied(t)') =>
            is_allowed(requests', now + ReportedReset(t)',
                       RATE_LIMIT, RATE_WINDOW).allowed

C25_RetryAfterSound == [][C25_Step]_vars

(***************************************************************************)
(* C26: construct once, reuse.  Under every interleaving of the requests   *)
(* at most one adapter, and with it one rate-limiter window, one decision  *)
(* mapper and one transport client are ever built; the mapper is bound to  *)
(* that adapter, every request that executes finds them, and once built    *)
(* they are never replaced.                                                *)
(***************************************************************************)
\* task t has been through get_mapper and _fetch
Executing(t) == admissions[t] >= 1 \/ Denied(t)

C26_State ==
    /\ DOMAIN adapters \subseteq {"openliga"}
    /\ \A n \in DOMAIN adapters : adapters[n].no = 1
    /\ mapper # NoneV =>
          /\ mapper.no = 1
          /\ DOMAIN adapters = {"openliga"}
          /\ mapper.adapter = adapters["openliga"].no
    /\ client # NoneV => client.no = 1 /\ mapper # NoneV
    /\ \A t \in Tasks :
          /\ Executing(t) => mapper # NoneV
          /\ admissions[t] >= 1 => client # NoneV

C26_Step ==
    /\ DOMAIN adapters # {} => adapters' = adapters
    /\ mapper # NoneV => mapper' = mapper
    /\ client # NoneV => client' = client

C26_ConstructOnce == [] C26_State /\ [][C26_Step]_vars

\* both tasks have executed, at the same clock value, on the one mapper, the
\* one adapter and the one client
C26_Witness ==
    /\ \A t \in Tasks : admissions[t] >= 1
    /\ Len(calls) >= 2
    /\ calls[1] = calls[2]
    /\ mapper # NoneV
    /\ mapper.no = 1
    /\ client # NoneV
    /\ client.no = 1

(***************************************************************************)
(* C27: the registry.  Once register_all has run, the mapper holds a       *)
(* decision for each of the four operations and for nothing else, the      *)
(* lookup of a name outside the enumeration finds nothing, the keys of     *)
(* every decision's mapping are exactly the required fields of the         *)
(* operation's schema, and no step of a request changes the registry.      *)
(***************************************************************************)
\* names no operation has
UnknownNames == {"Bogus", "getTeam", "GetLeagueStandings", ""}

MappingKeys(decision) ==
    {decision.payload_mapping[i][1] : i \in 1..Len(decision.payload_mapping)}

RequiredFields(op) ==
    {OPERATION_SCHEMAS[op].required[i] : i \in 1..Len(OPERATION_SCHEMAS[op].required)}

C27_State ==
    mapper # NoneV =>
        /\ DOMAIN mapper.v = OperationType
        /\ \A op \in OperationType :
              /\ get_decision(mapper.v, op) # NoneV
              /\ MappingKeys(get_decision(mapper.v, op)) = RequiredFields(op)
        /\ \A name \in UnknownNames : get_decision(mapper.v, name) = NoneV

C27_Step == mapper # NoneV => mapper'.v = mapper.v

C27_Registry == [] C27_State /\ [][C27_Step]_vars

\* the registry after requests have run to their end on it, one answered
\* and one failed
C27_Witness ==
    /\ mapper # NoneV
    /\ \E t, u \in Tasks :
          /\ pc[t] = "Responded"
          /\ pc[u] = "Errored"
          /\ admissions[u] >= 1

(***************************************************************************)
(* C28 as claimed: field lookup precedence in the normalizer.  When the    *)
(* raw record has the field under its upstream name (TeamId, LeagueId,     *)
(* MatchID, ...) that value is the one output, whatever it is, 0 and the   *)
(* empty string included; the pre-normalized name is looked at only when   *)
(* the upstream name is absent, and the default only when both are absent. *)
(***************************************************************************)
\* output field, upstream name, pre-normalized name, default
LookupTable(operation_type) ==
    CASE operation_type = "ListLeagues" ->
            << <<"id", "LeagueId", "id", NoneV>>,
               <<"name", "LeagueName", "name", NoneV>>,
               <<"country", "LeagueShortcut", "country", StrV("")>>,
               <<"season", "CurrentSeason", "season", NoneV>> >>
      [] operation_type = "GetTeam" ->
            << <<"id", "TeamId", "id", NoneV>>,
               <<"name", "TeamName", "name", StrV("")>>,
               <<"shortName", "ShortName", "shortName", NoneV>>,
               <<"foundedYear", "FoundingYear", "foundedYear", NoneV>>,
               <<"logo", "TeamIconUrl", "logo", NoneV>> >>
      [] OTHER ->
            << <<"id", "MatchID", "id", NoneV>>,
               <<"date", "MatchDateTime", "date", StrV("")>> >>

ByPrecedence(record, row) ==
    IF row[2] \in DOMAIN record.v THEN record.v[row[2]]
    ELSE IF row[3] \in DOMAIN record.v THEN record.v[row[3]]
    ELSE row[4]

FollowsPrecedence(operation_type, raw, out) ==
    (raw.t = "dict" /\ out.t = "dict") =>
        \A i \in 1..Len(LookupTable(operation_type)) :
            LET row == LookupTable(operation_type)[i] IN
                /\ row[1] \in DOMAIN out.v
                /\ Same(out.v[row[1]], ByPrecedence(raw, row))

C28_LookupPrecedence ==
    (Normalizing /\ result # <<>> /\ ~IsExc(result[1])) =>
        IF call.data.t = "list" /\ result[1].t = "list"
        THEN /\ Len(result[1].v) = Len(call.data.v)
             /\ \A i \in 1..Len(call.data.v) :
                   FollowsPrecedence(call.operation_type,
                                     call.data.v[i], result[1].v[i])
        ELSE FollowsPrecedence(call.operation_type, call.data, result[1])

====
